---- MODULE Spec2Model ----
(***************************************************************************)
(* Model of the FIFO process simulator (SimuladorPage.tsx): the process    *)
(* queue `procesos`, the archive `registro`, the run flag `running`, the   *)
(* edit sheet `editing`, and the handlers that change them.                *)
(***************************************************************************)
EXTENDS Integers, Sequences, FiniteSets, TLC

\* ---------------------------------------------------------------- bounds
MaxPid == 2        \* pids are 1..MaxPid
MaxCola == 2       \* records alive at once (queue plus archive)
\* Spec: every command of the page, small inputs
MaxTotal == 3      \* tiempo_total of a created process
MaxQuantum == 2    \* quantum of a created process
MaxAging == 1      \* interactividad of a created process
MaxEspera == 1     \* ticks stop once a tiempo_espera reaches this value
MaxTicksEdicion == 1 \* ticks that fire while the edit sheet is open
\* SpecPlan: the scheduler and the "Listo" override, larger inputs
MaxTotalPlan == 3    \* tiempo_total is 1..MaxTotalPlan
MaxQuantumPlan == 2  \* quantum is 1..MaxQuantumPlan
MaxAgingPlan == 2    \* numeric interactividad is 0..MaxAgingPlan
MaxEsperaPlan == 3   \* ticks stop once a tiempo_espera reaches this value
\* SpecFifo: the two-process scenario A(pid 1), B(pid 2)
MaxAgingFifo == 2    \* interactividad of A and of B is 0..MaxAgingFifo
MaxEsperaFifo == 12  \* ticks stop once a tiempo_espera reaches this value
\* SpecTres: a queue of MaxColaTres records created before the start
MaxColaTres == 3     \* the records have the pids 1..MaxColaTres
MaxTotalTres == 3    \* tiempo_total is 1..MaxTotalTres
MaxQuantumTres == 3  \* quantum is 1..MaxQuantumTres
MaxAgingTres == 1    \* interactividad is 0..MaxAgingTres
MaxEsperaTres == 9   \* ticks stop once a tiempo_espera reaches this value
\* SpecEdad: slice exhaustion and the manual suspend command
MaxAgingEdad == 2    \* interactividad of a created process is 0..MaxAgingEdad
MaxEsperaEdad == 3   \* ticks stop once a tiempo_espera reaches this value
\* SpecVivo: a run left to the interval and the archive effect
MaxEsperaVivo == 12   \* ticks stop once a tiempo_espera reaches this value

\* ------------------------------------------------------------ encodings
\* null of `t_inicio?: number | null` and `t_fin?: number | null`
Null == -1
\* the strings "alta" | "media" | "baja" the creation form stores in
\* interactividad: Number(...) of them is NaN, so `> 0` and `<= 0` are both false
Alta == -2

Nombres == {"a", "b"}
\* the name typed when a process is created
NombreNuevo == "a"
Pids == 1..MaxPid
\* the pid "" the quick launch bar puts in the record it hands over
PidVacio == 0

VARIABLES
    procesos,   \* useState<Process[]>: the active queue
    registro,   \* useState<Process[]>: the archive of terminated records
    running,    \* useState(false): whether the interval fires ticks
    editing,    \* useState<Process | null>: <<>> or <<snapshot>>
    ticksEdicion, \* history: ticks fired since the edit sheet was opened
    desde,      \* history: per pid, the ticks spent in the current Running
                \* or Suspended state since it was entered, Null when the
                \* record is in neither or a manual command changed it since
    memo        \* history: <<>> or <<m>>, m the queue handed to one earlier
                \* tick (entrada), the queue it returned (salida) and whether
                \* a later tick was handed an equal queue (repetido)

vars == <<procesos, registro, running, editing, ticksEdicion, desde, memo>>

\* ------------------------------------------------------- sequence helpers
Max2(a, b) == IF a >= b THEN a ELSE b

MaxDe(S) == IF S = {} THEN 0 ELSE CHOOSE m \in S : \A x \in S : x <= m

PidsDe(q) == {q[i].pid : i \in DOMAIN q}

Reverso(s) == [i \in 1..Len(s) |-> s[Len(s) + 1 - i]]

Quitar(q, idx) == [i \in 1..(Len(q) - 1) |-> IF i < idx THEN q[i] ELSE q[i + 1]]

Insertar(q, idx, x) ==
    [i \in 1..(Len(q) + 1) |-> IF i < idx THEN q[i] ELSE IF i = idx THEN x ELSE q[i - 1]]

\* Array.prototype.findIndex on estado, 1-based, 0 for -1
FindEstado(q, e) ==
    IF \E i \in DOMAIN q : q[i].estado = e
    THEN CHOOSE i \in DOMAIN q : q[i].estado = e /\ \A j \in 1..(i - 1) : q[j].estado # e
    ELSE 0

FindPid(q, pid) ==
    IF \E i \in DOMAIN q : q[i].pid = pid
    THEN CHOOSE i \in DOMAIN q : q[i].pid = pid /\ \A j \in 1..(i - 1) : q[j].pid # pid
    ELSE 0

\* a variant that cuts the queue at the record that holds the pid
SinPidNiResto(q, pid) ==
    IF FindPid(q, pid) = 0 THEN q ELSE SubSeq(q, 1, FindPid(q, pid) - 1)

\* prev.filter((x) => x.pid !== pid)
SinPid(q, pid) == SelectSeq(q, LAMBDA p : p.pid # pid)

\* { ...p, ...cambios }
Merge(p, cambios) ==
    [f \in DOMAIN p |-> IF f \in DOMAIN cambios THEN cambios[f] ELSE p[f]]

\* `a ?? b` on the nullable timestamps
Coalesce(a, b) == IF a = Null THEN b ELSE a

\* ------------------------------------------------------------ compareByPid
\* [...prevList].sort(compareByPid): a stable sort by ascending numeric pid
RECURSIVE SortByPid(_)
SortByPid(q) ==
    IF Len(q) <= 1 THEN q
    ELSE LET rest == SortByPid(Tail(q))
             x == Head(q)
             k == Cardinality({i \in DOMAIN rest : rest[i].pid < x.pid})
         IN Insertar(rest, k + 1, x)

\* --------------------------------------------------------------- records
\* a variant that truncates instead of rounding
ProgresoTruncado(total, restante) == (100 * (total - restante)) \div total

\* Math.round(((total - restante) / total) * 100)
Progreso(total, restante) == (200 * (total - restante) + total) \div (2 * total)

\* a variant that takes the quantum itself as the slice
SliceTimeQuantum(p) == IF p.quantum = 0 THEN 1 ELSE p.quantum

\* Math.ceil(total / (quantum || 1))
SliceTime(p) ==
    LET rotations == IF p.quantum = 0 THEN 1 ELSE p.quantum
    IN (p.tiempo_total + rotations - 1) \div rotations

\* the record the creation form, the quick launch bar and the monitor hand
\* to crearProceso
NuevoProceso(pid, nombre, total, quantum, inter) ==
    [pid |-> pid, nombre |-> nombre, tiempo_total |-> total,
     tiempo_restante |-> total, quantum |-> quantum, iteracion |-> 0,
     estado |-> "listo", progreso |-> 0, tiempo_cpu |-> 0,
     interactividad |-> inter, interactividad_inicial |-> inter,
     resident |-> TRUE, t_inicio |-> Null, t_fin |-> Null, tiempo_espera |-> 0]

Entradas ==
    {NuevoProceso(pid, NombreNuevo, t, q, k) :
        pid \in Pids, t \in {MaxTotal}, q \in {MaxQuantum}, k \in {MaxAging}}

EntradasPlan ==
    {NuevoProceso(pid, NombreNuevo, t, q, k) :
        pid \in Pids, t \in 1..MaxTotalPlan, q \in 1..MaxQuantumPlan,
        k \in (0..MaxAgingPlan) \cup {Alta}}

\* ------------------------------------------------------------ crearProceso
\* a variant that overwrites the record that holds the pid
CrearProcesoReemplaza(prev, bcp) ==
    IF bcp.pid \in PidsDe(prev)
    THEN [i \in DOMAIN prev |-> IF prev[i].pid = bcp.pid THEN bcp ELSE prev[i]]
    ELSE Append(prev, bcp)

\* a variant without the duplicate check
CrearProcesoSinControl(prev, bcp) == Append(prev, bcp)

CrearProceso(prev, bcp) ==
    IF bcp.pid \in PidsDe(prev) THEN prev ELSE Append(prev, bcp)

\* -------------------------------------------------------- simularPasoQuantum
\* a variant that also reads the archive
TiempoActualConArchivo(q) ==
    MaxDe({q[i].iteracion + q[i].tiempo_espera : i \in DOMAIN q}
            \cup {registro[i].iteracion + registro[i].tiempo_espera : i \in DOMAIN registro}
            \cup {0})

TiempoActual(q) == MaxDe({q[i].iteracion + q[i].tiempo_espera : i \in DOMAIN q} \cup {0})

NumGt0(x) == x # Alta /\ x > 0

NumLe0(x) == x # Alta /\ x <= 0

\* a variant that stops aging at 1
Paso1Tardio(q) ==
    [i \in DOMAIN q |->
        IF q[i].estado = "suspendido" /\ q[i].interactividad # Alta /\ q[i].interactividad > 1
        THEN [q[i] EXCEPT !.interactividad = @ - 1]
        ELSE q[i]]

\* PASO 1: suspended records age by one
Paso1(q) ==
    [i \in DOMAIN q |->
        IF q[i].estado = "suspendido" /\ NumGt0(q[i].interactividad)
        THEN [q[i] EXCEPT !.interactividad = @ - 1]
        ELSE q[i]]

EsPromovible(p) == p.estado = "suspendido" /\ NumLe0(p.interactividad)

AListo(q) == [i \in DOMAIN q |-> [q[i] EXCEPT !.estado = "listo"]]

\* a variant that puts the promoted records at the head of the queue
PromoverAlFrente(q) ==
    Reverso(AListo(SelectSeq(q, EsPromovible)))
        \o SelectSeq(q, LAMBDA p : ~EsPromovible(p))

\* toReadyIndices sorted descending, spliced out one by one and pushed in
\* that order
Promover(q) ==
    SelectSeq(q, LAMBDA p : ~EsPromovible(p))
        \o Reverso(AListo(SelectSeq(q, EsPromovible)))

\* PASO 3 and PASO 8: a listo record becomes the running one
Despachar(p, t) ==
    [p EXCEPT !.estado = "ejecutando", !.tiempo_cpu = 0, !.t_inicio = Coalesce(@, t)]

\* PASO 4
Ejecutar(p) ==
    LET restante == Max2(0, p.tiempo_restante - 1)
    IN [p EXCEPT !.tiempo_cpu = @ + 1,
                 !.tiempo_restante = restante,
                 !.progreso = IF p.tiempo_total > 0
                              THEN Progreso(p.tiempo_total, restante) ELSE @]

\* PASO 5
ContarEspera(q, execIdx) ==
    [i \in DOMAIN q |->
        IF i # execIdx /\ q[i].estado \in {"listo", "suspendido"}
        THEN [q[i] EXCEPT !.tiempo_espera = @ + 1]
        ELSE q[i]]

\* a variant that leaves t_fin as it was
TerminarSinFin(p, tiempoFinal) ==
    [p EXCEPT !.estado = "terminado", !.tiempo_cpu = 0, !.resident = FALSE,
              !.iteracion = @ + 1]

\* PASO 6
Terminar(p, tiempoFinal) ==
    [p EXCEPT !.estado = "terminado", !.t_fin = Coalesce(@, tiempoFinal),
              !.tiempo_cpu = 0, !.resident = FALSE, !.iteracion = @ + 1]

\* a variant that leaves the aging counter where it is
AgotarSinEdad(p) ==
    [p EXCEPT !.estado = "suspendido", !.tiempo_cpu = 0, !.iteracion = @ + 1]

\* a variant that does not count the slice
AgotarSinCuenta(p) ==
    [p EXCEPT !.estado = "suspendido", !.tiempo_cpu = 0,
              !.interactividad = p.interactividad_inicial]

\* PASO 7
Agotar(p) ==
    [p EXCEPT !.estado = "suspendido", !.tiempo_cpu = 0,
              !.interactividad = p.interactividad_inicial, !.iteracion = @ + 1]

\* a variant that prefers a listo record to the running one
SeleccionarListo(q) ==
    IF FindEstado(q, "listo") # 0 THEN FindEstado(q, "listo")
    ELSE FindEstado(q, "ejecutando")

\* a variant that falls back on the head of the queue
SeleccionarCabeza(q) ==
    IF FindEstado(q, "ejecutando") # 0 THEN FindEstado(q, "ejecutando")
    ELSE IF FindEstado(q, "listo") # 0 THEN FindEstado(q, "listo")
    ELSE IF Len(q) > 0 THEN 1 ELSE 0

\* PASO 2/3: the index of the record that executes in this tick, 0 for none
Seleccionar(q) ==
    IF FindEstado(q, "ejecutando") # 0 THEN FindEstado(q, "ejecutando")
    ELSE FindEstado(q, "listo")

\* a variant that takes the listo record of smallest pid
SiguientePorPid(q, tiempoFinal) ==
    LET listos == {i \in DOMAIN q : q[i].estado = "listo"}
    IN IF listos = {} THEN q
       ELSE LET n == CHOOSE i \in listos : \A j \in listos : q[i].pid <= q[j].pid
            IN [q EXCEPT ![n] = Despachar(@, tiempoFinal)]

\* a variant in which the redispatched record executes at once
SiguienteYEjecuta(q, tiempoFinal) ==
    LET nextExecIdx == FindEstado(q, "listo")
    IN IF nextExecIdx # 0
       THEN [q EXCEPT ![nextExecIdx] = Ejecutar(Despachar(@, tiempoFinal))]
       ELSE q

\* PASO 8
Siguiente(q, tiempoFinal) ==
    LET nextExecIdx == FindEstado(q, "listo")
    IN IF nextExecIdx # 0
       THEN [q EXCEPT ![nextExecIdx] = Despachar(@, tiempoFinal)]
       ELSE q

\* the whole updater: the new queue, the pid that executed (Null for none)
\* and the pids promoted from suspendido to listo
SimularPaso(prev) ==
    IF Len(prev) = 0 THEN [cola |-> prev, activo |-> Null, promovidos |-> {}]
    ELSE
    LET tiempoActual == TiempoActual(prev)
        aged == Paso1(prev)
        promovidos == {aged[i].pid : i \in {j \in DOMAIN aged : EsPromovible(aged[j])}}
        copia1 == Promover(aged)
        execIdx == Seleccionar(copia1)
    IN IF execIdx = 0
       THEN [cola |-> copia1, activo |-> Null, promovidos |-> promovidos]
       ELSE
       LET copia3 == IF copia1[execIdx].estado = "ejecutando" THEN copia1
                     ELSE [copia1 EXCEPT ![execIdx] = Despachar(@, tiempoActual)]
           proc == Ejecutar(copia3[execIdx])
           copia5 == ContarEspera([copia3 EXCEPT ![execIdx] = proc], execIdx)
           tiempoFinal == tiempoActual + 1
           termina == proc.tiempo_restante <= 0
           agota == ~termina /\ proc.tiempo_cpu >= SliceTime(proc)
           copia7 == IF termina
                     THEN [copia5 EXCEPT ![execIdx] = Terminar(proc, tiempoFinal)]
                     ELSE IF agota
                     THEN Append(Quitar(copia5, execIdx), Agotar(proc))
                     ELSE copia5
           copia8 == IF termina \/ agota THEN Siguiente(copia7, tiempoFinal) ELSE copia7
       IN [cola |-> copia8, activo |-> proc.pid, promovidos |-> promovidos]

\* ------------------------------------------------------ handleToggleRunning
\* a variant without the "already running" early return
IniciarSinGuarda(prevList) ==
    IF ~\E i \in DOMAIN prevList : prevList[i].estado = "listo" THEN prevList
    ELSE LET sorted == SortByPid(prevList)
             firstReadyIdx == FindEstado(sorted, "listo")
         IN [sorted EXCEPT ![firstReadyIdx] =
                [@ EXCEPT !.estado = "ejecutando", !.t_inicio = Coalesce(@, 0)]]

\* a variant that dispatches every listo record
IniciarTodos(prevList) ==
    IF \E i \in DOMAIN prevList : prevList[i].estado = "ejecutando" THEN prevList
    ELSE [i \in DOMAIN prevList |->
            IF prevList[i].estado = "listo"
            THEN [prevList[i] EXCEPT !.estado = "ejecutando", !.t_inicio = Coalesce(@, 0)]
            ELSE prevList[i]]

\* the setProcesos updater run when the simulation is started
Iniciar(prevList) ==
    IF \E i \in DOMAIN prevList : prevList[i].estado = "ejecutando" THEN prevList
    ELSE IF ~\E i \in DOMAIN prevList : prevList[i].estado = "listo" THEN prevList
    ELSE LET sorted == SortByPid(prevList)
             firstReadyIdx == FindEstado(sorted, "listo")
         IN [sorted EXCEPT ![firstReadyIdx] =
                [@ EXCEPT !.estado = "ejecutando", !.t_inicio = Coalesce(@, 0)]]

\* -------------------------------------------------------- actualizarProceso
TieneEstado(cambios, e) == "estado" \in DOMAIN cambios /\ cambios.estado = e

\* a variant whose suspendido branch keeps the interactividad of cambios
ActualizarProcesoSinEdad(prev, pid, cambios) ==
    LET idx == FindPid(prev, pid)
    IN IF idx = 0 THEN prev
       ELSE
       LET prevP == prev[idx]
           updated == Merge(prevP, cambios)
       IN IF TieneEstado(cambios, "ejecutando")
          THEN [i \in DOMAIN prev |->
                  IF prev[i].pid = pid
                  THEN [updated EXCEPT !.estado = "ejecutando",
                                       !.t_inicio = Coalesce(prev[i].t_inicio, TiempoActual(prev))]
                  ELSE IF prev[i].estado = "ejecutando"
                  THEN [prev[i] EXCEPT !.estado = "listo"]
                  ELSE prev[i]]
          ELSE IF TieneEstado(cambios, "listo") /\ prevP.estado # "listo"
          THEN Append(SinPid(prev, pid), [updated EXCEPT !.estado = "listo"])
          ELSE IF TieneEstado(cambios, "suspendido")
          THEN Append(SinPid(prev, pid),
                      [updated EXCEPT !.estado = "suspendido"])
          ELSE [prev EXCEPT ![idx] = updated]

ActualizarProceso(prev, pid, cambios) ==
    LET idx == FindPid(prev, pid)
    IN IF idx = 0 THEN prev
       ELSE
       LET prevP == prev[idx]
           updated == Merge(prevP, cambios)
       IN IF TieneEstado(cambios, "ejecutando")
          THEN [i \in DOMAIN prev |->
                  IF prev[i].pid = pid
                  THEN [updated EXCEPT !.estado = "ejecutando",
                                       !.t_inicio = Coalesce(prev[i].t_inicio, TiempoActual(prev))]
                  ELSE IF prev[i].estado = "ejecutando"
                  THEN [prev[i] EXCEPT !.estado = "listo"]
                  ELSE prev[i]]
          ELSE IF TieneEstado(cambios, "listo") /\ prevP.estado # "listo"
          THEN Append(SinPid(prev, pid), [updated EXCEPT !.estado = "listo"])
          ELSE IF TieneEstado(cambios, "suspendido")
          THEN Append(SinPid(prev, pid),
                      [updated EXCEPT !.estado = "suspendido",
                                      !.interactividad = prevP.interactividad_inicial])
          ELSE [prev EXCEPT ![idx] = updated]

\* -------------------------------------------------------- reordenarProcesos
\* a variant that brings an index out of range back to the nearest end
ReordenarProcesosAjusta(prev, from, to) ==
    IF Len(prev) = 0 THEN prev
    ELSE LET f == IF from < 0 THEN 0 ELSE IF from >= Len(prev) THEN Len(prev) - 1 ELSE from
             t == IF to < 0 THEN 0 ELSE IF to >= Len(prev) THEN Len(prev) - 1 ELSE to
         IN Insertar(Quitar(prev, f + 1), t + 1, prev[f + 1])

ReordenarProcesos(prev, from, to) ==
    IF from < 0 \/ from >= Len(prev) \/ to < 0 \/ to >= Len(prev) THEN prev
    ELSE Insertar(Quitar(prev, from + 1), to + 1, prev[from + 1])

\* ---------------------------------------------------------- handleReiniciar
\* the record handleReiniciar hands to crearProceso
Reiniciado(p) ==
    [p EXCEPT !.estado = "listo", !.tiempo_cpu = 0, !.tiempo_restante = p.tiempo_total,
              !.progreso = 0, !.iteracion = 0, !.t_inicio = Null, !.t_fin = Null,
              !.tiempo_espera = 0, !.interactividad = p.interactividad_inicial,
              !.resident = TRUE]

\* ------------------------------------------------------------ the archive
\* a variant that copies the whole queue to the archive
TerminadosYResto(q) == q

Terminados(q) == SelectSeq(q, LAMBDA p : p.estado = "terminado")

NoTerminados(q) == SelectSeq(q, LAMBDA p : p.estado # "terminado")

\* a terminated record is in the queue: the archive effect runs before any
\* other handler
Pendiente == \E i \in DOMAIN procesos : procesos[i].estado = "terminado"

\* the rows the table shows (displayList): executing, ready and suspended
Visible(p) == p.estado \in {"ejecutando", "listo", "suspendido"}

\* the handlers of the page and the rows are reachable: no archive step is
\* pending and the modal edit sheet is closed
Libre == ~Pendiente /\ editing = <<>>

\* ---------------------------------------------------- history bookkeeping
\* after a manual command: an unchanged record keeps its count, a record
\* that has just become suspended starts one, any other loses it
DesdeManual(q) ==
    [pid \in Pids |->
        LET i == FindPid(q, pid)
            j == FindPid(procesos, pid)
        IN IF i = 0 THEN Null
           ELSE IF j # 0 /\ procesos[j] = q[i] THEN desde[pid]
           ELSE IF q[i].estado = "suspendido" THEN 0
           ELSE Null]

\* after a tick
DesdeTick(r) ==
    [pid \in Pids |->
        LET i == FindPid(r.cola, pid)
            j == FindPid(procesos, pid)
        IN IF i = 0 THEN Null
           ELSE
           LET antes == procesos[j].estado
               ahora == r.cola[i].estado
               corrida == IF antes = "ejecutando"
                          THEN (IF desde[pid] = Null THEN Null ELSE desde[pid] + 1)
                          ELSE 1
           IN IF pid = r.activo
              THEN (IF ahora \in {"ejecutando", "terminado"} THEN corrida ELSE 0)
              ELSE IF ahora = "ejecutando" THEN 0
              ELSE IF ahora = "suspendido" /\ r.cola[i].interactividad # Alta
              THEN (IF desde[pid] = Null THEN Null ELSE desde[pid] + 1)
              ELSE Null]

\* ------------------------------------------------------------------ Init
Init ==
    /\ procesos = <<>>
    /\ registro = <<>>
    /\ running = FALSE
    /\ editing = <<>>
    /\ ticksEdicion = 0
    /\ desde = [pid \in Pids |-> Null]
    /\ memo = <<>>

\* --------------------------------------------------------------- actions
\* the mutation shared by the manual commands
Manual(q) ==
    /\ procesos' = q
    /\ desde' = DesdeManual(q)
    /\ UNCHANGED <<registro, running, editing, ticksEdicion, memo>>

\* crearProceso from the form, the quick launch bar or the monitor
CrearDe(entradas) ==
    /\ Libre
    /\ Len(procesos) + Len(registro) < MaxCola
    /\ \E bcp \in entradas : Manual(CrearProceso(procesos, bcp))

Crear == CrearDe(Entradas)

CrearPlan == CrearDe(EntradasPlan)

\* handleToggleRunning
ToggleRunning ==
    /\ Libre
    /\ running' = ~running
    /\ IF ~running
       THEN LET q == Iniciar(procesos)
            IN /\ procesos' = q
               /\ desde' = [pid \in Pids |->
                               IF /\ FindPid(q, pid) # 0
                                  /\ q[FindPid(q, pid)].estado = "ejecutando"
                                  /\ procesos[FindPid(procesos, pid)].estado # "ejecutando"
                               THEN 0 ELSE desde[pid]]
       ELSE UNCHANGED <<procesos, desde>>
    /\ UNCHANGED <<registro, editing, ticksEdicion, memo>>

\* the interval callback: simularPasoQuantum
PasoQuantum(maxEspera) ==
    /\ running
    /\ ~Pendiente
    /\ \A i \in DOMAIN procesos : procesos[i].tiempo_espera < maxEspera
    /\ editing # <<>> => ticksEdicion < MaxTicksEdicion
    /\ LET r == SimularPaso(procesos)
       IN /\ procesos' = r.cola
          /\ desde' = DesdeTick(r)
    /\ ticksEdicion' = IF editing # <<>> THEN ticksEdicion + 1 ELSE 0
    /\ UNCHANGED <<registro, running, editing>>

TickCon(maxEspera) == PasoQuantum(maxEspera) /\ UNCHANGED memo

Tick == TickCon(MaxEspera)

TickPlan == TickCon(MaxEsperaPlan)

\* useEffect([procesos]): terminated records move to the archive
Archivar ==
    /\ Pendiente
    /\ registro' = registro \o Terminados(procesos)
    /\ procesos' = NoTerminados(procesos)
    /\ desde' = [pid \in Pids |->
                    IF pid \in PidsDe(NoTerminados(procesos)) THEN desde[pid] ELSE Null]
    /\ UNCHANGED <<running, editing, ticksEdicion, memo>>

\* Row: the "Listo" button
MarcarListo ==
    /\ Libre
    /\ \E i \in DOMAIN procesos :
        /\ Visible(procesos[i])
        /\ procesos[i].estado \notin {"listo", "terminado"}
        /\ Manual(ActualizarProceso(procesos, procesos[i].pid, [estado |-> "listo"]))

\* Row: the "Suspender" button (onActualizar, then onSuspender)
Suspender ==
    /\ Libre
    /\ \E i \in DOMAIN procesos :
        LET p == procesos[i]
            q1 == ActualizarProceso(procesos, p.pid,
                    [estado |-> "suspendido", tiempo_cpu |-> 0, resident |-> TRUE,
                     interactividad |-> p.interactividad_inicial])
            q2 == ActualizarProceso(q1, p.pid,
                    [estado |-> "suspendido", tiempo_cpu |-> 0, resident |-> TRUE,
                     interactividad |-> 1])
        IN /\ Visible(p)
           /\ p.estado \notin {"suspendido", "terminado"}
           /\ Manual(q2)

\* Row: the "Finalizar" button
Finalizar ==
    /\ Libre
    /\ \E i \in DOMAIN procesos :
        LET p == procesos[i]
        IN /\ Visible(p)
           /\ Manual(ActualizarProceso(procesos, p.pid,
                    [estado |-> "terminado", progreso |-> 100, tiempo_restante |-> 0,
                     tiempo_cpu |-> 0, interactividad |-> 0, t_fin |-> Coalesce(p.t_fin, 0)]))

\* Row: the "Reiniciar" button
Reiniciar ==
    /\ Libre
    /\ \E i \in DOMAIN procesos :
        LET p == procesos[i]
        IN /\ Visible(p)
           /\ Manual(ActualizarProceso(procesos, p.pid,
                    [tiempo_restante |-> p.tiempo_total, progreso |-> 0, iteracion |-> 0,
                     estado |-> "listo", tiempo_cpu |-> 0, t_inicio |-> Null, t_fin |-> Null,
                     tiempo_espera |-> 0, interactividad |-> p.interactividad_inicial]))

\* handleReiniciar on an archived record
ReiniciarArchivado ==
    /\ Libre
    /\ Len(procesos) + Len(registro) < MaxCola
    /\ \E i \in DOMAIN registro :
        Manual(CrearProceso(procesos, Reiniciado(registro[i])))

\* Row: the "Editar" button opens the sheet on a snapshot of the record
Editar ==
    /\ Libre
    /\ \E i \in DOMAIN procesos :
        /\ Visible(procesos[i])
        /\ editing' = <<procesos[i]>>
    /\ UNCHANGED <<procesos, registro, running, ticksEdicion, desde, memo>>

\* the edit sheet's onSave: ProcessForm.handleSave in edit mode
GuardarEdicion ==
    /\ editing # <<>>
    /\ ~Pendiente
    /\ \E nombre \in Nombres :
        LET q == ActualizarProceso(procesos, editing[1].pid,
                                   [editing[1] EXCEPT !.nombre = nombre])
        IN /\ procesos' = q
           /\ desde' = DesdeManual(q)
    /\ editing' = <<>>
    /\ ticksEdicion' = 0
    /\ UNCHANGED <<registro, running, memo>>

\* the edit sheet's onCancel
CancelarEdicion ==
    /\ editing # <<>>
    /\ ~Pendiente
    /\ editing' = <<>>
    /\ ticksEdicion' = 0
    /\ UNCHANGED <<procesos, registro, running, desde, memo>>

\* eliminarProcesoLocal, confirmed
Eliminar ==
    /\ Libre
    /\ \E pid \in Pids : Manual(SinPid(procesos, pid))

\* reordenarProcesos
Reordenar ==
    /\ Libre
    /\ \E from \in -1..Len(procesos), to \in -1..Len(procesos) :
        Manual(ReordenarProcesos(procesos, from, to))

\* borrarTodos, confirmed
BorrarTodos ==
    /\ Libre
    /\ Len(procesos) > 0
    /\ Manual(<<>>)

\* handleLimpiarRegistro
LimpiarRegistro ==
    /\ Libre
    /\ registro' = <<>>
    /\ UNCHANGED <<procesos, running, editing, ticksEdicion, desde, memo>>

Next ==
    \/ Crear
    \/ ToggleRunning
    \/ Tick
    \/ Archivar
    \/ MarcarListo
    \/ Suspender
    \/ Finalizar
    \/ Reiniciar
    \/ ReiniciarArchivado
    \/ Editar
    \/ GuardarEdicion
    \/ CancelarEdicion
    \/ Eliminar
    \/ Reordenar
    \/ BorrarTodos
    \/ LimpiarRegistro

Spec == Init /\ [][Next]_vars

\* the scheduler: creation, start and stop, ticks, the archive, and the
\* "Listo" override of a row
NextPlan ==
    \/ CrearPlan
    \/ ToggleRunning
    \/ TickPlan
    \/ Archivar
    \/ MarcarListo

SpecPlan == Init /\ [][NextPlan]_vars

\* A(pid 1) and B(pid 2) created, in either order, before the start; then
\* the start and the ticks, with no manual command
\* total_time = 4 and quantum = 4 for both
ProcesoFifo(pid, k) == NuevoProceso(pid, NombreNuevo, 4, 4, k)

InitFifo ==
    /\ \E ka \in 0..MaxAgingFifo, kb \in 0..MaxAgingFifo :
          \/ procesos = <<ProcesoFifo(1, ka), ProcesoFifo(2, kb)>>
          \/ procesos = <<ProcesoFifo(2, kb), ProcesoFifo(1, ka)>>
    /\ registro = <<>>
    /\ running = FALSE
    /\ editing = <<>>
    /\ ticksEdicion = 0
    /\ desde = [pid \in Pids |-> Null]
    /\ memo = <<>>

IniciarFifo == ~running /\ ToggleRunning

TickFifo == TickCon(MaxEsperaFifo)

NextFifo ==
    \/ IniciarFifo
    \/ TickFifo
    \/ Archivar

SpecFifo == InitFifo /\ [][NextFifo]_vars

\* ------------------------------------------------------------ quick launch
\* two of the APPS of the quick launch bar
Apps ==
    {[name |-> "Notion", tiempo_total |-> 15, quantum |-> 3, interactividad |-> 1],
     [name |-> "Terminal", tiempo_total |-> 10, quantum |-> 2, interactividad |-> 3]}

\* QuickLaunchBar.handleLaunch: the record built for an app
Lanzamiento(app) ==
    NuevoProceso(PidVacio, app.name, app.tiempo_total, app.quantum, app.interactividad)

\* the button of an app is disabled while a record of the queue has its name
Lanzable(app) == \A i \in DOMAIN procesos : procesos[i].nombre # app.name

\* handleQuickLaunch
Lanzar ==
    /\ Libre
    /\ Len(procesos) + Len(registro) < MaxCola
    /\ \E app \in Apps :
        /\ Lanzable(app)
        /\ Manual(CrearProceso(procesos, Lanzamiento(app)))

\* the creation form: generatePid(existingPids) avoids the pids of the queue
CrearForma ==
    /\ Libre
    /\ Len(procesos) + Len(registro) < MaxCola
    /\ \E bcp \in Entradas :
        /\ bcp.pid \notin PidsDe(procesos)
        /\ Manual(CrearProceso(procesos, bcp))

\* creation without a caller-chosen pid, the start and the ticks
NextLanzar ==
    \/ Lanzar
    \/ CrearForma
    \/ ToggleRunning
    \/ Tick
    \/ Archivar

SpecLanzar == Init /\ [][NextLanzar]_vars

\* ------------------------------------------------------ a longer queue
\* the orders in which the pids 1..MaxColaTres can have been created
OrdenesTres ==
    {o \in [1..MaxColaTres -> 1..MaxColaTres] :
        \A i, j \in 1..MaxColaTres : o[i] = o[j] => i = j}

\* MaxColaTres records created, in any order, before the first start; the
\* history `desde` follows the pids of Pids only
InitTres ==
    /\ \E o \in OrdenesTres,
          t \in [1..MaxColaTres -> 1..MaxTotalTres],
          c \in [1..MaxColaTres -> 1..MaxQuantumTres],
          k \in [1..MaxColaTres -> 0..MaxAgingTres] :
            procesos = [i \in 1..MaxColaTres |->
                            NuevoProceso(o[i], NombreNuevo, t[i], c[i], k[i])]
    /\ registro = <<>>
    /\ running = FALSE
    /\ editing = <<>>
    /\ ticksEdicion = 0
    /\ desde = [pid \in Pids |-> Null]
    /\ memo = <<>>

TickTres == TickCon(MaxEsperaTres)

\* the start and the stop, the ticks and the archive
NextTres ==
    \/ ToggleRunning
    \/ TickTres
    \/ Archivar

SpecTres == InitTres /\ [][NextTres]_vars

\* -------------------------------------------------- suspension and aging
EntradasEdad ==
    {NuevoProceso(pid, NombreNuevo, MaxTotal, MaxQuantum, k) :
        pid \in Pids, k \in 0..MaxAgingEdad}

CrearEdad == CrearDe(EntradasEdad)

TickEdad == TickCon(MaxEsperaEdad)

\* creation, the start and the stop, ticks, the archive and the "Suspender"
\* button of a row
NextEdad ==
    \/ CrearEdad
    \/ ToggleRunning
    \/ TickEdad
    \/ Archivar
    \/ Suspender

SpecEdad == Init /\ [][NextEdad]_vars

\* ------------------------------------------- the updater on any queue
\* a record as setProcesos may hold it before the first tick: created, and
\* either still listo or already ejecutando
EnCola(bcp, e) ==
    [bcp EXCEPT !.estado = e, !.t_inicio = IF e = "ejecutando" THEN 0 ELSE Null]

\* simularPasoQuantum takes whatever queue setProcesos holds: the queues of
\* two records, among them those in which both are ejecutando, which no
\* command of the page produces
InitDos ==
    /\ \E x \in EntradasPlan, y \in EntradasPlan, ex, ey \in {"ejecutando", "listo"} :
          /\ x.pid # y.pid
          /\ procesos = <<EnCola(x, ex), EnCola(y, ey)>>
    /\ registro = <<>>
    /\ running = TRUE
    /\ editing = <<>>
    /\ ticksEdicion = 0
    /\ desde = [pid \in Pids |-> Null]
    /\ memo = <<>>

\* the ticks and the archive
NextDos ==
    \/ TickPlan
    \/ Archivar

SpecDos == InitDos /\ [][NextDos]_vars

\* ------------------------------------------------------ a run left alone
\* one or two records created before the start, by the form (whose
\* interactividad is a string), the quick launch bar or the monitor
InitVivo ==
    /\ \/ \E x \in EntradasPlan : procesos = <<x>>
       \/ \E x \in EntradasPlan, y \in EntradasPlan :
            x.pid # y.pid /\ procesos = <<x, y>>
    /\ registro = <<>>
    /\ running = FALSE
    /\ editing = <<>>
    /\ ticksEdicion = 0
    /\ desde = [pid \in Pids |-> Null]
    /\ memo = <<>>

IniciarVivo == ~running /\ ToggleRunning

TickVivo == TickCon(MaxEsperaVivo)

\* the start, then nothing but the ticks and the archive
NextVivo ==
    \/ IniciarVivo
    \/ TickVivo
    \/ Archivar

\* while running is true the interval fires simularPasoQuantum every second,
\* and React runs the archive effect after every change of procesos
SpecVivo ==
    /\ InitVivo
    /\ [][NextVivo]_vars
    /\ WF_vars(TickVivo)
    /\ WF_vars(Archivar)

\* ------------------------------------- records created after the start
\* crearProceso while the interval is on, after the records of the initial
\* queue
CrearTarde ==
    /\ Libre
    /\ running
    /\ Len(procesos) + Len(registro) < MaxColaTres
    /\ \E bcp \in EntradasPlan : Manual(CrearProceso(procesos, bcp))

NextTarde ==
    \/ IniciarVivo
    \/ TickPlan
    \/ Archivar
    \/ CrearTarde

SpecTarde == InitVivo /\ [][NextTarde]_vars

\* ------------------------------------------------- ticks on equal queues
\* a tick that may be remembered, or is compared with the remembered one
TickMemo ==
    /\ PasoQuantum(MaxEspera)
    /\ IF memo = <<>>
       THEN memo' \in {<<>>, <<[entrada |-> procesos, salida |-> procesos',
                                repetido |-> FALSE]>>}
       ELSE IF memo[1].entrada = procesos
       THEN memo' = <<[memo[1] EXCEPT !.repetido = TRUE]>>
       ELSE UNCHANGED memo

\* creation, starts and stops, ticks, the archive and the clears
NextMemo ==
    \/ Crear
    \/ ToggleRunning
    \/ TickMemo
    \/ Archivar
    \/ BorrarTodos
    \/ LimpiarRegistro

SpecMemo == Init /\ [][NextMemo]_vars

\* =================================================================== claims
\* the record of pid in q, and its position
Rec(q, pid) == q[FindPid(q, pid)]

Ejecutando(q) == {i \in DOMAIN q : q[i].estado = "ejecutando"}

\* C1: in every state reachable by any sequence of create, start, stop,
\* tick, manual suspend/resume/terminate/restart, rename, remove and reorder,
\* at most one record of the queue is Running ("ejecutando").
C1_UnSoloEjecutando == Cardinality(Ejecutando(procesos)) <= 1

\* a record has run while another waited, and the simulation was stopped
\* with the first still Running and the second Ready: the next start must
\* not dispatch it
C1_Witness ==
    /\ ~running
    /\ \E i, j \in DOMAIN procesos :
        /\ procesos[i].estado = "ejecutando" /\ procesos[i].tiempo_cpu >= 1
        /\ procesos[j].estado = "listo" /\ procesos[j].tiempo_espera >= 1

\* C2: in a tick, after aging and promotion, the record that executes is the
\* one already Running if there is one, otherwise the first Ready record in
\* queue order; no other record executes.
C2_TickSelecciona ==
    [][TickPlan =>
        LET q == Promover(Paso1(procesos))
            ejecutados == {procesos[i].pid : i \in
                            {k \in DOMAIN procesos :
                                Rec(procesos', procesos[k].pid).tiempo_restante
                                    < procesos[k].tiempo_restante}}
            esperado ==
                IF Ejecutando(q) # {} THEN {q[i].pid : i \in Ejecutando(q)}
                ELSE {q[i].pid : i \in
                        {k \in DOMAIN q : /\ q[k].estado = "listo"
                                          /\ \A m \in 1..(k - 1) : q[m].estado # "listo"}}
        IN ejecutados = esperado]_vars

\* the Running record stands first with the larger pid and has executed
\* while the Ready record of smaller pid waited behind it
C2_Witness ==
    /\ Len(procesos) = 2
    /\ procesos[1].estado = "ejecutando" /\ procesos[1].tiempo_cpu >= 1
    /\ procesos[2].estado = "listo" /\ procesos[2].tiempo_espera >= 1
    /\ procesos[1].pid > procesos[2].pid

Comunes == PidsDe(procesos) \cap PidsDe(procesos')

\* C4: across every operation other than restart, the tiempo_restante of a
\* record never increases, including when a rename is saved after ticks
\* have run since the edit form was opened.
C4_RestanteNoCrece ==
    [][Reiniciar \/ \A pid \in Comunes :
            Rec(procesos', pid).tiempo_restante <= Rec(procesos, pid).tiempo_restante]_vars

\* C5: a record that is dispatched and then runs on consecutive ticks with
\* no manual command is Suspended at the end of exactly its
\* ceil(tiempo_total / quantum)-th consecutive running tick, unless its
\* tiempo_restante reaches 0 first.
C5_SuspendidoAlAgotar ==
    [][TickPlan => \A i \in DOMAIN procesos :
        LET p == procesos[i]
            n == IF p.estado = "ejecutando" THEN desde[p.pid] + 1 ELSE 1
            b == Rec(procesos', p.pid)
        IN (/\ b.tiempo_restante < p.tiempo_restante
            /\ p.estado = "ejecutando" => desde[p.pid] # Null
            /\ b.tiempo_restante > 0)
           => (b.estado = "suspendido" <=> n = SliceTime(p))]_vars

\* C6: a record dispatched with t_inicio = s whose slice is at least its
\* tiempo_total becomes Terminated with tiempo_restante = 0 at exactly the
\* tiempo_total-th tick after its dispatch, with t_fin = s + tiempo_total.
C6_FinExacto ==
    \A i \in DOMAIN procesos :
        LET p == procesos[i]
        IN (SliceTime(p) >= p.tiempo_total /\ desde[p.pid] # Null) =>
            /\ p.estado = "ejecutando" => desde[p.pid] < p.tiempo_total
            /\ (p.estado = "terminado" /\ desde[p.pid] = p.tiempo_total) =>
                    /\ p.tiempo_restante = 0
                    /\ p.t_fin = p.t_inicio + p.tiempo_total

\* C7: a record that becomes Suspended with interactividad =
\* interactividad_inicial = k (k >= 1) stays Suspended during the next k - 1
\* ticks, its counter going down by exactly 1 on each, and leaves Suspended
\* for Ready during exactly the k-th tick after its suspension.
C7_Promocion ==
    [][TickPlan => \A i \in DOMAIN procesos :
        LET p == procesos[i]
            k == p.interactividad_inicial
            n == desde[p.pid] + 1
            b == Rec(procesos', p.pid)
            sigue == b.estado = "suspendido" /\ b.tiempo_restante = p.tiempo_restante
        IN (p.estado = "suspendido" /\ desde[p.pid] # Null /\ k # Alta /\ k >= 1) =>
            /\ p.interactividad = k - desde[p.pid]
            /\ n <= k
            /\ n < k => sigue /\ b.interactividad = k - n
            /\ n = k => ~sigue]_vars

\* a record suspended with the largest counter has aged to 0 and stands
\* Ready again, after a first running burst
C7_Witness ==
    \E i \in DOMAIN procesos :
        /\ procesos[i].estado = "listo"
        /\ procesos[i].interactividad_inicial = MaxAgingPlan
        /\ procesos[i].interactividad = 0
        /\ procesos[i].iteracion >= 1

\* the position of pid in q
Pos(q, pid) == FindPid(q, pid)

\* C8: when two or more Suspended records reach interactividad <= 0 in the
\* same tick, they stand in the queue, after the promotion, in the same
\* relative order they had before it.
C8_OrdenPromocion ==
    [][Tick => \A i, j \in DOMAIN procesos :
        LET x == procesos[i]
            y == procesos[j]
            promovido(p) == /\ p.estado = "suspendido"
                            /\ Rec(procesos', p.pid).estado \in {"listo", "ejecutando"}
        IN (i < j /\ promovido(x) /\ promovido(y)) =>
            Pos(procesos', x.pid) < Pos(procesos', y.pid)]_vars

\* C10: every transition of a record into Suspended or into Terminated,
\* by a tick or by a manual command, increases its iteracion by exactly 1,
\* and no other step changes iteracion; only restart resets it.
C10_IteracionCuenta ==
    [][Reiniciar \/ \A pid \in Comunes :
        LET a == Rec(procesos, pid)
            b == Rec(procesos', pid)
            entra == /\ b.estado \in {"suspendido", "terminado"}
                     /\ \/ a.estado # b.estado
                        \/ Tick /\ b.tiempo_restante < a.tiempo_restante
        IN b.iteracion = a.iteracion + (IF entra THEN 1 ELSE 0)]_vars

\* the records A (pid 1) and B (pid 2), in the queue or in the archive
RecA == Rec(procesos \o registro, 1)

RecB == Rec(procesos \o registro, 2)

\* C9 (as stated): with A(pid 1, total 4, quantum 4) and B(pid 2, total 4,
\* quantum 4) created before the start and no manual command, the start
\* dispatches A first, neither A nor B is ever Suspended before it
\* terminates, B does not run before A has terminated, and A terminates
\* before B.
C9_Secuencial ==
    /\ RecB.t_inicio # Null => RecA.t_inicio # Null
    /\ RecA.estado # "suspendido" /\ RecB.estado # "suspendido"
    /\ RecB.tiempo_restante < RecB.tiempo_total => RecA.estado = "terminado"
    /\ RecB.estado = "terminado" => RecA.estado = "terminado"

\* C9 (amended): the start dispatches A first; the slice of both records is
\* ceil(4 / 4) = 1 tick, so the record that ran in a tick is Suspended at
\* the end of it unless it terminated, once per tick it has run; B runs
\* while A is Suspended, before A's second tick; and when A and B have the
\* same interactividad, A terminates before B.
C9_Alternado ==
    /\ running => RecA.t_inicio = 0
    /\ RecB.t_inicio # Null => RecA.tiempo_restante < RecA.tiempo_total
    /\ \A p \in {RecA, RecB} :
        /\ p.estado = "ejecutando" => p.tiempo_cpu = 0
        /\ p.iteracion = p.tiempo_total - p.tiempo_restante
    /\ RecA.tiempo_restante = RecA.tiempo_total - 1 /\ RecB.tiempo_restante = RecB.tiempo_total
            => RecA.estado = "suspendido" /\ RecB.estado = "ejecutando"
    /\ RecA.tiempo_restante < RecA.tiempo_total - 1
            => RecB.tiempo_restante < RecB.tiempo_total
    /\ (RecA.interactividad_inicial = RecB.interactividad_inicial /\ RecB.estado = "terminado")
            => RecA.estado = "terminado"

\* after the first tick A is Suspended with 3 ticks left and B, which has
\* not run yet, is Running
C9_Witness ==
    /\ RecA.estado = "suspendido" /\ RecA.tiempo_restante = 3
    /\ RecB.estado = "ejecutando" /\ RecB.tiempo_restante = 4

\* the pids of q in queue order
PidsEnOrden(q) == [i \in DOMAIN q |-> q[i].pid]

\* C11: the relative order of the records changes only through creation,
\* promotion, manual reorder or removal; in particular start() and stop()
\* leave the queue order unchanged.
C11_OrdenAlIniciar ==
    [][ToggleRunning => PidsEnOrden(procesos') = PidsEnOrden(procesos)]_vars

\* the first listo record of q, as a set of pids
PrimerListo(q) ==
    {q[i].pid : i \in {k \in DOMAIN q : /\ q[k].estado = "listo"
                                        /\ \A m \in 1..(k - 1) : q[m].estado # "listo"}}

\* C12: selection by ascending pid is applied to the first dispatch of a
\* run only: a start() made once a record of the queue has been dispatched
\* (its t_inicio is set) takes the first Ready record in queue order.
C12_UnaSolaVez ==
    [][(/\ ToggleRunning
        /\ ~running
        /\ \E i \in DOMAIN procesos : procesos[i].t_inicio # Null
        /\ Ejecutando(procesos) = {}
        /\ Ejecutando(procesos') # {})
       => {procesos'[i].pid : i \in Ejecutando(procesos')} = PrimerListo(procesos)]_vars

\* C13: a record's t_inicio is set exactly when the record has been Running
\* since its creation or last restart: a Running record has it, it is set
\* only by a step in which the record runs, and once set it is not changed
\* by any operation other than restart.
C13_InicioSiCorrio ==
    [][Reiniciar \/ \A pid \in Comunes :
        LET a == Rec(procesos, pid)
            b == Rec(procesos', pid)
        IN /\ b.estado = "ejecutando" => b.t_inicio # Null
           /\ a.t_inicio # Null => b.t_inicio = a.t_inicio
           /\ (a.t_inicio = Null /\ b.t_inicio # Null) =>
                  \/ b.estado = "ejecutando"
                  \/ b.tiempo_restante < a.tiempo_restante]_vars

\* C14: in every state, in the queue and in the archive, a record's t_fin
\* is set if and only if its state is Terminated, whether a tick or the
\* manual terminate command terminated it.
C14_FinSiTerminado ==
    \A p \in {procesos[i] : i \in DOMAIN procesos} \cup {registro[i] : i \in DOMAIN registro} :
        p.t_fin # Null <=> p.estado = "terminado"

\* the archive holds a record terminated by a tick (PASO 6 counted it) and
\* one terminated by the manual command (never counted)
C14_Witness ==
    \E i, j \in DOMAIN registro :
        /\ registro[i].iteracion >= 1 /\ registro[i].t_fin >= 1
        /\ registro[j].iteracion = 0 /\ registro[j].t_fin = 0

\* C15: in every tick, the tiempo_espera of a record goes up by exactly 1
\* if the record is Ready or Suspended and does not execute in that tick,
\* also when no record can run because all of them are Suspended, and is
\* unchanged for the record that executes.
C15_EsperaPorTick ==
    [][TickPlan => \A pid \in Comunes :
        LET a == Rec(procesos, pid)
            b == Rec(procesos', pid)
            activo == b.tiempo_restante < a.tiempo_restante
        IN b.tiempo_espera = a.tiempo_espera +
              (IF ~activo /\ a.estado \in {"listo", "suspendido"} THEN 1 ELSE 0)]_vars

\* C16: a create with a pid already present in the queue is rejected and
\* leaves the queue (length, order and every field of every record)
\* unchanged.
C16_DuplicadoRechazado ==
    \A bcp \in Entradas \cup EntradasPlan :
        bcp.pid \in PidsDe(procesos) => CrearProceso(procesos, bcp) = procesos

\* the form is reachable and there is room, while the only record of the
\* queue has already run: a create with its pid would be told apart
C16_Witness ==
    /\ Libre
    /\ Len(procesos) = 1 /\ Len(registro) = 0
    /\ procesos[1].estado = "ejecutando"
    /\ procesos[1].tiempo_restante < procesos[1].tiempo_total

\* C17: every create made without a caller-chosen pid, from the form or
\* from the quick launch bar, adds a record whose pid differs from all pids
\* of the queue, also when several such creates are made in a row.
C17_PidNuevo ==
    /\ \A app \in Apps :
        (Libre /\ Lanzable(app)) =>
            LET q == CrearProceso(procesos, Lanzamiento(app))
            IN /\ Len(q) = Len(procesos) + 1
               /\ q[Len(q)].pid \notin PidsDe(procesos)
    /\ \A bcp \in Entradas :
        (Libre /\ bcp.pid \notin PidsDe(procesos)) =>
            Len(CrearProceso(procesos, bcp)) = Len(procesos) + 1

\* C18: in every state no two records of the queue share a pid.
C18_PidUnico ==
    \A i, j \in DOMAIN procesos : procesos[i].pid = procesos[j].pid => i = j

\* a pid is in the queue again, and has run, while its terminated record is
\* still in the archive: a further restart from the archive or create with
\* that pid must be turned down
C18_Witness ==
    /\ Len(procesos) = 1
    /\ \E j \in DOMAIN registro : registro[j].pid = procesos[1].pid
    /\ procesos[1].tiempo_restante < procesos[1].tiempo_total

\* b is p restarted: Ready with every counter back at its creation value,
\* and pid, nombre, tiempo_total and quantum as in p
EsReinicioDe(b, p) ==
    /\ b.estado = "listo"
    /\ b.tiempo_restante = p.tiempo_total /\ b.progreso = 0 /\ b.iteracion = 0
    /\ b.tiempo_cpu = 0 /\ b.tiempo_espera = 0
    /\ b.t_inicio = Null /\ b.t_fin = Null
    /\ b.interactividad = p.interactividad_inicial
    /\ b.resident
    /\ b.pid = p.pid /\ b.nombre = p.nombre
    /\ b.tiempo_total = p.tiempo_total /\ b.quantum = p.quantum

\* C19: the restart of a record in any state, Terminated (in the archive)
\* or not, yields a Ready record of that pid with tiempo_restante =
\* tiempo_total, progreso, iteracion, tiempo_cpu and tiempo_espera 0, no
\* t_inicio and t_fin, interactividad = interactividad_inicial and
\* resident, while pid, nombre, tiempo_total and quantum are unchanged.
C19_Reinicio ==
    Libre => \A i \in DOMAIN registro :
        LET p == registro[i]
            q == CrearProceso(procesos, Reiniciado(p))
        IN /\ p.pid \in PidsDe(q)
           /\ EsReinicioDe(Rec(q, p.pid), p)

\* C20: saving a rename changes only the nombre of that record: every
\* other field of it, the queue order and every other record are the same
\* after the save as immediately before it, even when ticks ran between
\* opening the edit form and saving it.
C20_SoloElNombre ==
    [][GuardarEdicion =>
        /\ PidsEnOrden(procesos') = PidsEnOrden(procesos)
        /\ \A i \in DOMAIN procesos :
              procesos'[i] = [procesos[i] EXCEPT !.nombre = procesos'[i].nombre]
        /\ \A i \in DOMAIN procesos :
              procesos[i].pid # editing[1].pid => procesos'[i] = procesos[i]]_vars

\* C21: stop() sets the state of every non-Terminated record to Inactive,
\* so that after it no record is Running, Ready or Suspended, and no tick is
\* applied to the queue until the next start().
C21_DetenerInactiva ==
    [][/\ (ToggleRunning /\ running) =>
            \A i \in DOMAIN procesos' :
                procesos'[i].estado \in {"terminado", "inactivo"}
       /\ Tick => running]_vars

\* C22: start() leaves the queue unchanged (same records, same order, same
\* fields) when a record is already Running or when no record is Ready; in
\* every other case exactly one record becomes Running.
C22_IniciarUnoONada ==
    [][(ToggleRunning /\ ~running) =>
        IF \/ Ejecutando(procesos) # {}
           \/ \A i \in DOMAIN procesos : procesos[i].estado # "listo"
        THEN procesos' = procesos
        ELSE /\ PidsDe(procesos') = PidsDe(procesos)
             /\ Cardinality({pid \in PidsDe(procesos) :
                    /\ Rec(procesos', pid).estado = "ejecutando"
                    /\ Rec(procesos, pid).estado # "ejecutando"}) = 1
             /\ \A pid \in PidsDe(procesos) :
                    \/ Rec(procesos', pid).estado = "ejecutando"
                    \/ Rec(procesos', pid).estado = Rec(procesos, pid).estado]_vars

\* a start has passed over the Suspended record of smaller pid and
\* dispatched the Ready one, which has not run yet
C22_Witness ==
    /\ running
    /\ Len(procesos) = 2
    /\ procesos[1].estado = "suspendido" /\ procesos[1].pid < procesos[2].pid
    /\ procesos[2].estado = "ejecutando"
    /\ procesos[2].tiempo_restante = procesos[2].tiempo_total
    /\ procesos[2].t_inicio = 0

\* C23: a record created while the simulation is stopped has state
\* Inactive, and a record created while the simulation is running has
\* state Ready.
C23_EstadoAlCrear ==
    [][Crear => \A pid \in PidsDe(procesos') \ PidsDe(procesos) :
        Rec(procesos', pid).estado = IF running THEN "listo" ELSE "inactivo"]_vars

\* the terminated records the page holds, as one queue
TodosTerminados == Terminados(procesos) \o registro

\* C24: ticking a non-empty queue in which every record is Terminated
\* returns a queue identical to the input (same order, every field of every
\* record equal), for any number of repeated ticks.
C24_TickTerminadosNada ==
    \A q \in {procesos, TodosTerminados} :
        (q # <<>> /\ \A i \in DOMAIN q : q[i].estado = "terminado") =>
            /\ SimularPaso(q).cola = q
            /\ SimularPaso(SimularPaso(q).cola).cola = q

\* the simulation is running and the queue holds nothing but the record
\* the last tick terminated, while the archive holds another one
C24_Witness ==
    /\ running
    /\ Len(procesos) = 1 /\ procesos[1].estado = "terminado"
    /\ procesos[1].iteracion >= 1
    /\ Len(registro) = 1 /\ registro[1].pid # procesos[1].pid

\* C25: reorder(from, to) with from or to outside 0..length-1 leaves the
\* queue unchanged (same order, same records).
C25_IndiceInvalido ==
    \A from, to \in -2..(Len(procesos) + 1) :
        (from < 0 \/ from >= Len(procesos) \/ to < 0 \/ to >= Len(procesos)) =>
            ReordenarProcesos(procesos, from, to) = procesos

\* the reorder command is reachable on a queue of two different records,
\* one of which has run
C25_Witness ==
    /\ Libre
    /\ Len(procesos) = 2
    /\ procesos[1].estado # procesos[2].estado
    /\ \E i \in DOMAIN procesos : procesos[i].tiempo_restante < procesos[i].tiempo_total

\* C26: remove(pid) of a pid absent from the queue leaves the queue
\* unchanged, and remove(pid) of a present pid deletes exactly that record
\* while every other record keeps its fields and its relative order.
C26_EliminarExacto ==
    \A pid \in Pids \cup {PidVacio} :
        LET q == SinPid(procesos, pid)
        IN IF pid \notin PidsDe(procesos)
           THEN q = procesos
           ELSE /\ Len(q) = Len(procesos) - 1
                /\ pid \notin PidsDe(q)
                /\ q = Quitar(procesos, FindPid(procesos, pid))

\* the remove command is reachable on a queue of two records whose head
\* has run: removing it must leave the other one, and only it
C26_Witness ==
    /\ Libre
    /\ Len(procesos) = 2
    /\ procesos[1].tiempo_restante < procesos[1].tiempo_total
    /\ procesos[2].tiempo_espera >= 1

C28_SoloElActivoAvanza ==
    [][TickPlan =>
        LET activo == SimularPaso(procesos).activo
        IN activo # Null => \A pid \in PidsDe(procesos) :
            LET a == Rec(procesos, pid)
                b == Rec(procesos', pid)
                cpu == (IF a.estado = "ejecutando" THEN a.tiempo_cpu ELSE 0) + 1
            IN IF pid = activo
               THEN /\ b.tiempo_restante = Max2(0, a.tiempo_restante - 1)
                    /\ b.estado = "ejecutando" => b.tiempo_cpu = cpu
                    /\ Ejecutar([a EXCEPT !.tiempo_cpu = cpu - 1]).tiempo_cpu = cpu
               ELSE /\ b.tiempo_restante = a.tiempo_restante
                    /\ b.progreso = a.progreso
                    /\ b.estado = "ejecutando" => b.tiempo_cpu = 0]_vars

\* the record that ran has been suspended at the tail and the redispatch
\* has made the other one Running, which has not executed yet
C28_Witness ==
    /\ Len(procesos) = 2
    /\ procesos[1].estado = "ejecutando"
    /\ procesos[1].tiempo_cpu = 0
    /\ procesos[1].tiempo_restante = procesos[1].tiempo_total
    /\ procesos[1].t_inicio >= 1
    /\ procesos[2].estado = "suspendido" /\ procesos[2].iteracion >= 1
    /\ procesos[2].tiempo_restante < procesos[2].tiempo_total

\* C29: at the end of any tick in which the active record terminated or
\* was suspended, if at least one record is Ready then the first Ready
\* record in queue order is Running with tiempo_cpu = 0; consequently after
\* every tick, the existence of a Ready record implies the existence of a
\* Running record.
C29_Redespacho ==
    [][TickTres =>
        LET activo == SimularPaso(procesos).activo
            vacante == /\ activo # Null
                       /\ Rec(procesos', activo).estado \in {"terminado", "suspendido"}
            \* Ready once the active record has left: still Ready, or made
            \* Running by the redispatch
            eraListo(i) == procesos'[i].estado \in {"listo", "ejecutando"}
        IN /\ (vacante /\ \E i \in DOMAIN procesos' : eraListo(i)) =>
                \E i \in DOMAIN procesos' :
                    /\ procesos'[i].estado = "ejecutando"
                    /\ procesos'[i].tiempo_cpu = 0
                    /\ procesos'[i].pid # activo
                    /\ \A j \in 1..(i - 1) : ~eraListo(j)
           /\ (\E i \in DOMAIN procesos' : procesos'[i].estado = "listo") =>
                (\E i \in DOMAIN procesos' : procesos'[i].estado = "ejecutando")]_vars

\* the active record has been suspended at the tail and, of the two
\* Ready records left, the redispatch has made the one at the head
\* Running, though the one behind it, promoted in that tick, has the
\* smaller pid
C29_Witness ==
    /\ Len(procesos) = 3
    /\ procesos[1].estado = "ejecutando" /\ procesos[1].tiempo_cpu = 0
    /\ procesos[2].estado = "listo" /\ procesos[2].pid < procesos[1].pid
    /\ procesos[3].estado = "suspendido" /\ procesos[3].iteracion >= 1
    /\ procesos[2].iteracion >= 1

\* C30: when the active record has not terminated in this tick and its
\* tiempo_cpu has reached ceil(tiempo_total / quantum), the tick sets it to
\* Suspended with tiempo_cpu = 0 and interactividad =
\* interactividad_inicial and places it at the queue tail behind every
\* other record; when tiempo_cpu is below that bound the record stays
\* Running at the position it has once the promoted records have moved.
C30_AgotaOSigue ==
    [][TickTres =>
        LET activo == SimularPaso(procesos).activo
            q == Promover(Paso1(procesos))
        IN activo # Null =>
            LET a == Rec(procesos, activo)
                b == Rec(procesos', activo)
                cpu == (IF a.estado = "ejecutando" THEN a.tiempo_cpu ELSE 0) + 1
            IN b.tiempo_restante > 0 =>
                IF cpu * a.quantum >= a.tiempo_total
                THEN /\ b.estado = "suspendido"
                     /\ b.tiempo_cpu = 0
                     /\ b.interactividad = a.interactividad_inicial
                     /\ Pos(procesos', activo) = Len(procesos')
                     /\ PidsEnOrden(procesos') =
                            Append(PidsEnOrden(SinPid(q, activo)), activo)
                ELSE /\ b.estado = "ejecutando"
                     /\ b.tiempo_cpu = cpu
                     /\ PidsEnOrden(procesos') = PidsEnOrden(q)]_vars

\* a record whose counter had aged to 0 has run again and has been
\* suspended a second time, at the tail behind two other records, with its
\* counter back at the initial value
C30_Witness ==
    /\ Len(procesos) = 3
    /\ procesos[3].estado = "suspendido"
    /\ procesos[3].iteracion = 2
    /\ procesos[3].interactividad_inicial = 1
    /\ procesos[3].interactividad = 1
    /\ procesos[3].tiempo_cpu = 0
    /\ procesos[3].tiempo_restante = 1

\* C31: whenever a record becomes Running, by the selection of a tick, by
\* the redispatch at the end of a tick or by the initial dispatch of the
\* start, its tiempo_cpu is 0 at that moment, and whenever a record becomes
\* Suspended its tiempo_cpu is 0.
C31_CpuCeroAlEntrar ==
    [][\A pid \in Comunes :
        LET a == Rec(procesos, pid)
            b == Rec(procesos', pid)
            corrio == b.tiempo_restante < a.tiempo_restante
        IN /\ (b.estado = "ejecutando" /\ a.estado # "ejecutando" /\ ~corrio)
                => b.tiempo_cpu = 0
           /\ (b.estado = "ejecutando" /\ a.estado # "ejecutando" /\ corrio)
                => b.tiempo_cpu = 1
           /\ (b.estado = "suspendido" /\ a.estado # "suspendido")
                => b.tiempo_cpu = 0]_vars

\* C32: whenever a record enters Suspended, by slice exhaustion in a tick
\* or by the manual suspend command, its interactividad equals its
\* interactividad_inicial, and interactividad_inicial itself is never
\* changed by any tick or manual command, so every suspension of the same
\* record lasts the same number of ticks: a record suspended for n ticks
\* has interactividad = max(interactividad_inicial - n, 0) and is still
\* suspended after the next tick exactly when n + 1 < interactividad_inicial.
C32_EdadInicial ==
    [][\A pid \in Comunes :
        LET a == Rec(procesos, pid)
            b == Rec(procesos', pid)
            k == a.interactividad_inicial
            n == desde[pid]
            sigue == b.estado = "suspendido" /\ b.tiempo_restante = a.tiempo_restante
        IN /\ b.interactividad_inicial = a.interactividad_inicial
           /\ (b.estado = "suspendido" /\ a.estado # "suspendido")
                => b.interactividad = b.interactividad_inicial
           /\ (a.estado = "suspendido" /\ n # Null)
                => /\ a.interactividad = Max2(k - n, 0)
                   /\ TickEdad => (sigue <=> n + 1 < k)]_vars

\* two records with the largest counter stand Suspended, one by the
\* command after it had run, the other by slice exhaustion
C32_Witness ==
    /\ Len(procesos) = 2
    /\ \A i \in DOMAIN procesos :
        /\ procesos[i].estado = "suspendido"
        /\ procesos[i].interactividad_inicial = MaxAgingEdad
    /\ \E i, j \in DOMAIN procesos :
        /\ procesos[i].iteracion = 0
        /\ procesos[i].tiempo_restante < procesos[i].tiempo_total
        /\ procesos[j].iteracion >= 1

\* C33: in every reachable state a record, in the queue or in the archive,
\* has resident = false if and only if its state is Terminated, whether a
\* tick or the manual terminate command terminated it.
C33_ResidenteSiVivo ==
    \A p \in {procesos[i] : i \in DOMAIN procesos} \cup {registro[i] : i \in DOMAIN registro} :
        ~p.resident <=> p.estado = "terminado"

C35_SinBloqueo ==
    (running /\ procesos # <<>> /\ ~Pendiente) => SimularPaso(procesos).cola # procesos

\* C36: for every record terminated by a tick, t_fin is strictly greater
\* than t_inicio, also when other records were created later, removed or
\* archived while it was waiting or running.
C36_FinDespuesDeInicio ==
    \A p \in {procesos[i] : i \in DOMAIN procesos} \cup {registro[i] : i \in DOMAIN registro} :
        p.estado = "terminado" => (p.t_inicio # Null /\ p.t_fin > p.t_inicio)

\* ceil(a / b) for b >= 1
Techo(a, b) == (a + b - 1) \div b

C38_MismosRegistros ==
    [][TickTres =>
        LET Movido(pid) ==
                LET a == Rec(procesos, pid)
                    b == Rec(procesos', pid)
                IN \/ /\ a.estado = "suspendido"
                      /\ (b.estado # "suspendido" \/ b.tiempo_restante < a.tiempo_restante)
                   \/ /\ a.estado # "suspendido"
                      /\ b.estado = "suspendido"
        IN /\ Len(procesos') = Len(procesos)
           /\ PidsDe(procesos') = PidsDe(procesos)
           /\ \A u, v \in PidsDe(procesos) :
                /\ (~Movido(u) /\ ~Movido(v) /\ Pos(procesos, u) < Pos(procesos, v))
                      => Pos(procesos', u) < Pos(procesos', v)
                /\ (~Movido(u) /\ Movido(v))
                      => Pos(procesos', u) < Pos(procesos', v)]_vars

\* after a tick that promoted a record and suspended another: three
\* records, the last two of them behind a record of a higher pid
C38_Witness ==
    /\ running
    /\ Len(procesos) = 3
    /\ procesos[1].pid > procesos[2].pid
    /\ procesos[1].pid > procesos[3].pid
    /\ procesos[1].estado = "ejecutando"
    /\ procesos[2].iteracion >= 1
    /\ procesos[3].estado = "suspendido"
    /\ procesos[3].iteracion >= 1

\* the number of entries of s equal to the record r
Veces(s, r) == Cardinality({i \in DOMAIN s : s[i] = r})

C40_PidEnUnSoloLugar ==
    /\ PidsDe(procesos) \cap PidsDe(registro) = {}
    /\ \A i, j \in DOMAIN registro : registro[i].pid = registro[j].pid => i = j

====
